---- MODULE Spec2Model ----
(***************************************************************************)
(* Parcel/owner reconciliation: identifier normalisation                   *)
(* (csv_handler.format_id_csv_column), grouping and the grouped-CSV round  *)
(* trip (csv_handler.process_csv / export_to_csv / read_csv), the merge    *)
(* into the geometry collection (geojson_handler.process_geojson), and a   *)
(* whole run of the pipeline from main.main or gui.submit.                 *)
(*                                                                         *)
(* Text is a sequence of one-character strings.                            *)
(***************************************************************************)
EXTENDS Integers, Sequences, FiniteSets, TLC

VARIABLES
    pc,          \* position of the run that the specification models
    raw,         \* id_csv_column handed to format_id_csv_column
    other,       \* a second raw identifier (pair specification)
    fmt,         \* outcome of format_id_csv_column(raw)
    fmtOther,    \* outcome of format_id_csv_column(other)
    rows,              \* the rows csv.DictReader yields from the input CSV
    csv_separator,     \* the separator of the run
    idx,               \* rows of the input CSV consumed by process_csv
    owners_by_parcel,  \* the dict process_csv builds, in insertion order
    csv_file,          \* content of the grouped CSV on disk (NoFile: absent)
    csv_data,          \* the dict read_csv returns, process_geojson's owners_by_parcel
    geo_input,         \* the input GeoJSON on disk: the properties of its features
    prop_name,         \* name of the aggregate property
    individual_prop_base_name,  \* base name of the individual properties ('' for none)
    geojson_data,      \* the features process_geojson holds in memory
    fidx,              \* features visited by the merge loop
    processed_count,
    json_inconsistencies,
    csv_inconsistencies,
    inc_json_file,     \* content of the JSON-side inconsistency CSV on disk
    inc_csv_file,      \* content of the CSV-side inconsistency CSV on disk
    out_geojson,       \* the output GeoJSON on disk
    geo_result,        \* how process_geojson ended
    first_run,         \* output and reports of an earlier run on the same data
    flow,              \* the caller: main ("cli"), submit ("gui"), or none
    overwrite,         \* answer to the GUI's askyesno dialog
    response,          \* answer typed at confirm_overwrite's prompt
    exit_status,       \* status main ended with
    dialog,            \* message box submit ended with
    error_log,         \* messages logged with logging.error, in order
    separator,         \* cfg_manager.csv_separator / submit's csv_separator, as text
    first_line         \* the header line of the input CSV

fmtVars == <<raw, other, fmt, fmtOther>>
csvVars == <<rows, csv_separator, idx, owners_by_parcel, csv_file>>
geoVars == <<geo_input, prop_name, individual_prop_base_name, geojson_data, fidx,
             processed_count, json_inconsistencies, csv_inconsistencies,
             inc_json_file, inc_csv_file, out_geojson, geo_result>>
sepVars == <<separator, first_line>>
runVars == <<flow, overwrite, exit_status, dialog, sepVars>>
vars == <<pc, fmtVars, csvVars, csv_data, geoVars, first_run, runVars, response,
          error_log>>

(***************************************************************************)
(* Character classes of the regular expression (re: \d, [A-Z], \s).        *)
(***************************************************************************)
Digits == {"0", "1", "2", "3", "4", "5", "6", "7", "8", "9"}
Upper == {"A", "B", "C", "D", "E", "F", "G", "H", "I", "J", "K", "L", "M",
          "N", "O", "P", "Q", "R", "S", "T", "U", "V", "W", "X", "Y", "Z"}
Whitespace == {" ", "\t", "\n", "\r"}

\* r'(\d{5})...': the length of the commune (insee) code
CodeLen == 5
\* parcel_number.zfill(4)
PadWidth == 4
\* "The formatted ID will have 14 characters"
CanonicalLen == 14

(***************************************************************************)
(* Bounds of the inputs.                                                   *)
(***************************************************************************)
\* longest text after the first CodeLen characters of a raw identifier
MaxTail == 6
\* longest text after a head that need not be a commune code
MaxShortTail == 3
\* most blanks between two parts, most leading zeros of a built identifier
MaxWs == 1
MaxZeros == 4
\* most rows of the input CSV, longest owner-name column
MaxRows == 2
MaxOwnerLen == 3
\* most features of the input GeoJSON, most parcels of the mapping, most
\* owners of a parcel
MaxFeatures == 2
MaxParcels == 2
MaxOwners == 2

None == [ok |-> FALSE, value |-> <<>>, error |-> <<>>, raised |-> FALSE]

\* s[i..j] as a sequence (empty when j < i)
Slice(s, i, j) == IF j < i THEN <<>> ELSE SubSeq(s, i, j)

\* n copies of the character c
Repeat(c, n) == [k \in 1..n |-> c]

\* The index after the longest run of Class characters of s that starts at i
\* (a greedy  Class*  of the regular expression engine).
SpanEnd(s, i, Class) ==
    CHOOSE j \in i..(Len(s) + 1) :
        /\ \A k \in i..(j - 1) : s[k] \in Class
        /\ (j = Len(s) + 1 \/ s[j] \notin Class)

(***************************************************************************)
(* re.match(r'(\d{5})\s*([A-Z]+)\s*(\d+)', s): anchored at the start of s, *)
(* not at its end.  The classes are pairwise disjoint, so the greedy runs  *)
(* are the only way the pattern can match.                                 *)
(***************************************************************************)
ReMatch(s) ==
    IF ~(Len(s) >= CodeLen /\ \A k \in 1..CodeLen : s[k] \in Digits)
    THEN [matched |-> FALSE, insee |-> <<>>, section |-> <<>>, parcel |-> <<>>]
    ELSE LET a == SpanEnd(s, CodeLen + 1, Whitespace)
             b == SpanEnd(s, a, Upper)
             c == SpanEnd(s, b, Whitespace)
             d == SpanEnd(s, c, Digits)
         IN  IF b > a /\ d > c
             THEN [matched |-> TRUE,
                   insee   |-> Slice(s, 1, CodeLen),
                   section |-> Slice(s, a, b - 1),
                   parcel  |-> Slice(s, c, d - 1)]
             ELSE [matched |-> FALSE, insee |-> <<>>, section |-> <<>>,
                   parcel |-> <<>>]

\* a padding that cuts to the last width digits
zfill_cut(s, width) ==
    IF Len(s) >= width
    THEN Slice(s, Len(s) - width + 1, Len(s))
    ELSE Repeat("0", width - Len(s)) \o s

\* a padding that keeps the first width digits of a longer number
zfill_first(s, width) ==
    IF Len(s) >= width THEN Slice(s, 1, width) ELSE Repeat("0", width - Len(s)) \o s

\* str.zfill(width) on a string of digits: left-pad with '0', never cut
zfill(s, width) ==
    IF Len(s) >= width THEN s ELSE Repeat("0", width - Len(s)) \o s

\* a padding that ignores the section length
SectionZeros_three(section_code) == Repeat("0", 3)

\* zeros = '0000' if len(section_code) == 1 else '000'
SectionZeros(section_code) ==
    IF Len(section_code) = 1 THEN Repeat("0", 4) ELSE Repeat("0", 3)

\* an error that drops the offending value
InvalidIdError_bare(id_csv_column) == <<"Invalid ID format: ">>

\* ValueError(f"Invalid ID format: {id_csv_column}")
InvalidIdError(id_csv_column) == <<"Invalid ID format: ">> \o id_csv_column

format_id_csv_column(id_csv_column) ==
    LET match == ReMatch(id_csv_column)
    IN  IF match.matched
        THEN [ok     |-> TRUE,
              value  |-> match.insee \o SectionZeros(match.section)
                           \o match.section \o zfill(match.parcel, PadWidth),
              error  |-> <<>>,
              raised |-> FALSE]
        ELSE [ok     |-> FALSE,
              value  |-> <<>>,
              error  |-> InvalidIdError(id_csv_column),
              raised |-> TRUE]

(***************************************************************************)
(* Specification SpecFmt: format_id_csv_column applied to one raw string.  *)
(***************************************************************************)
\* characters of the first CodeLen positions / of the rest of the input
CodeChars == {"1"}
TailChars == {"7", "A", " ", "x"}
AnyHeadChars == {"1", "A", " "}

SeqsUpTo(A, n) == UNION {[1..k -> A] : k \in 0..n}

\* a commune code followed by any tail; any head followed by a short tail;
\* inputs shorter than a commune code
RawInputs ==
    {h \o t : h \in [1..CodeLen -> CodeChars], t \in SeqsUpTo(TailChars, MaxTail)}
        \cup {h \o t : h \in [1..CodeLen -> AnyHeadChars],
                       t \in SeqsUpTo(TailChars, MaxShortTail)}
        \cup SeqsUpTo(AnyHeadChars, CodeLen - 1)

\* the parts of the state a specification does not use
NoFile == [exists |-> FALSE, text |-> <<>>]
IdleFmt == raw = <<>> /\ other = <<>> /\ fmt = None /\ fmtOther = None
IdleCsv ==
    /\ rows = <<>>
    /\ csv_separator = ","
    /\ idx = 0
    /\ owners_by_parcel = <<>>
    /\ csv_file = NoFile
NoGeoFile == [exists |-> FALSE, features |-> <<>>]
IdleGeo ==
    /\ geo_input = <<>>
    /\ prop_name = <<"P">>
    /\ individual_prop_base_name = <<>>
    /\ geojson_data = <<>>
    /\ fidx = 0
    /\ processed_count = 0
    /\ json_inconsistencies = <<>>
    /\ csv_inconsistencies = <<>>
    /\ inc_json_file = NoFile
    /\ inc_csv_file = NoFile
    /\ out_geojson = NoGeoFile
    /\ geo_result = "none"

NoRun == [ran |-> FALSE, features |-> <<>>, json |-> <<>>, csv |-> <<>>]
NoAnswer == <<"none">>
IdleRun ==
    /\ first_run = NoRun
    /\ flow = "none"
    /\ overwrite = "none"
    /\ response = NoAnswer
    /\ exit_status = "none"
    /\ dialog = "none"
    /\ error_log = <<>>
    /\ separator = <<",">>
    /\ first_line = <<>>

\* the text of an exception of the operating system (open, write)
OSError == <<"OSError">>

\* logging.error(f"{text}{e}")
LogError(log, text, e) == Append(log, <<text>> \o e)

ExportInconsistenciesError == "Error exporting inconsistencies to CSV: "

InitFmt ==
    /\ pc = "start"
    /\ raw \in RawInputs
    /\ other = <<>>
    /\ fmt = None
    /\ fmtOther = None
    /\ IdleCsv
    /\ csv_data = <<>>
    /\ IdleGeo
    /\ IdleRun

\* formatted_id = format_id_csv_column(row[id_csv_column])
FormatId ==
    /\ pc = "start"
    /\ fmt' = format_id_csv_column(raw)
    /\ pc' = "formatted"
    /\ UNCHANGED <<raw, other, fmtOther, csvVars, csv_data, geoVars, first_run, runVars, response, error_log>>

NextFmt == FormatId

SpecFmt == InitFmt /\ [][NextFmt]_vars

(***************************************************************************)
(* Specification SpecPair: format_id_csv_column applied to two raw         *)
(* identifiers written from parts (commune code, blanks, section, blanks,  *)
(* leading zeros, parcel number).                                          *)
(***************************************************************************)
Communes == {<<"1", "2", "3", "4", "5">>, <<"1", "2", "3", "4", "6">>}
Sections == {<<"A">>, <<"A", "B">>, <<"A", "B", "C">>}
ParcelNumbers == {<<"7">>, <<"1", "2", "3", "4">>, <<"1", "2", "3", "4", "5">>}

BuildRaw(commune, ws1, section, ws2, zeros, parcel) ==
    commune \o Repeat(" ", ws1) \o section \o Repeat(" ", ws2)
        \o Repeat("0", zeros) \o parcel

BuiltInputs ==
    {BuildRaw(c, w1, s, w2, z, p) :
        c \in Communes, w1 \in 0..MaxWs, s \in Sections, w2 \in 0..MaxWs,
        z \in 0..MaxZeros, p \in ParcelNumbers}

InitPair ==
    /\ pc = "start"
    /\ raw \in BuiltInputs
    /\ other \in BuiltInputs
    /\ fmt = None
    /\ fmtOther = None
    /\ IdleCsv
    /\ csv_data = <<>>
    /\ IdleGeo
    /\ IdleRun

\* format_id_csv_column on the identifier of a further row
FormatOther ==
    /\ pc = "formatted"
    /\ other # <<>>
    /\ fmtOther' = format_id_csv_column(other)
    /\ pc' = "formattedBoth"
    /\ UNCHANGED <<raw, other, fmt, csvVars, csv_data, geoVars, first_run, runVars, response, error_log>>

NextPair == FormatId \/ FormatOther

SpecPair == InitPair /\ [][NextPair]_vars

(***************************************************************************)
(* The shape of a raw identifier, stated on the whole string:              *)
(* <5 digits><blanks><1+ uppercase letters><blanks><1+ digits>.            *)
(***************************************************************************)
AllIn(s, i, j, Class) == \A k \in i..j : s[k] \in Class

Shapes(s) ==
    IF ~(Len(s) > CodeLen /\ AllIn(s, 1, CodeLen, Digits))
    THEN {}
    ELSE UNION {UNION {{[a |-> a, b |-> b, c |-> c] :
                          c \in {z \in b..(Len(s) - 1) :
                                    /\ AllIn(s, b + 1, z, Whitespace)
                                    /\ AllIn(s, z + 1, Len(s), Digits)}} :
                       b \in {y \in (a + 1)..Len(s) : AllIn(s, a + 1, y, Upper)}} :
                a \in {x \in CodeLen..Len(s) : AllIn(s, CodeLen + 1, x, Whitespace)}}

WellFormed(s) == Shapes(s) # {}

CommuneOf(s) == Slice(s, 1, CodeLen)
SectionOf(s, sh) == Slice(s, sh.a + 1, sh.b)
ParcelOf(s, sh) == Slice(s, sh.c + 1, Len(s))

Max(x, y) == IF x >= y THEN x ELSE y

\* v is the parcel digits p left-padded with '0' to at least PadWidth
IsPadded(v, p) ==
    /\ Len(v) = Max(PadWidth, Len(p))
    /\ \A k \in 1..Len(p) : v[Len(v) - Len(p) + k] = p[k]
    /\ \A k \in 1..(Len(v) - Len(p)) : v[k] = "0"

\* v is commune + ('0000' for a 1-letter section, else '000') + section + padded parcel
IsCanonical(v, commune, section, parcel) ==
    LET nz == IF Len(section) = 1 THEN 4 ELSE 3
        at == CodeLen + nz + Len(section)
    IN  /\ Len(v) = at + Max(PadWidth, Len(parcel))
        /\ Slice(v, 1, CodeLen) = commune
        /\ \A k \in (CodeLen + 1)..(CodeLen + nz) : v[k] = "0"
        /\ Slice(v, CodeLen + nz + 1, at) = section
        /\ IsPadded(Slice(v, at + 1, Len(v)), parcel)

\* C1: a raw identifier of the shape <5 digits><blanks><letters><blanks><digits>
\* is formatted to commune + '0000'/'000' + section + parcel padded to width 4,
\* a parcel number of 5 or more digits being kept whole.
C1_FormatExact ==
    pc = "formatted" =>
        \A sh \in Shapes(raw) :
            /\ fmt.ok
            /\ IsCanonical(fmt.value, CommuneOf(raw), SectionOf(raw, sh),
                           ParcelOf(raw, sh))

\* a well-formed identifier with a parcel number of 5 digits has been formatted
C1_Witness ==
    /\ pc = "formatted"
    /\ fmt.ok
    /\ \E sh \in Shapes(raw) :
          Len(ParcelOf(raw, sh)) >= 5 /\ Len(SectionOf(raw, sh)) = 1


C3_RejectsIllFormed ==
    (pc = "formatted" /\ ~WellFormed(raw)) => (fmt.raised /\ ~fmt.ok)

\* the input does not begin with five digits
NoLeadingCode(s) == ~(Len(s) >= CodeLen /\ AllIn(s, 1, CodeLen, Digits))

\* C4: an input that does not begin with five digits yields no id: the call
\* raises, and the error ends with the offending raw string.
C4_NoCodeRaises ==
    (pc = "formatted" /\ NoLeadingCode(raw)) =>
        /\ fmt.raised
        /\ ~fmt.ok
        /\ fmt.value = <<>>
        /\ Len(fmt.error) > Len(raw)
        /\ Slice(fmt.error, Len(fmt.error) - Len(raw) + 1, Len(fmt.error)) = raw

\* an input shaped like '1234 A 7' (a blank in the first five characters) was rejected
C4_Witness ==
    /\ pc = "formatted"
    /\ fmt.raised
    /\ Len(raw) > CodeLen
    /\ raw[CodeLen] = " "
    /\ AllIn(raw, 1, CodeLen - 1, Digits)
    /\ WellFormed(<<"1">> \o raw)

\* the parcel number without its leading zeros ("0" for a number of zeros only)
StripZeros(p) ==
    LET nz == {k \in 1..Len(p) : p[k] # "0"}
    IN  IF nz = {} THEN <<"0">>
        ELSE Slice(p, CHOOSE k \in nz : \A m \in nz : k <= m, Len(p))

\* same commune code, same section letters, numerically equal parcel numbers
SameParcel(s, t) ==
    \E sh \in Shapes(s), th \in Shapes(t) :
        /\ CommuneOf(s) = CommuneOf(t)
        /\ SectionOf(s, sh) = SectionOf(t, th)
        /\ StripZeros(ParcelOf(s, sh)) = StripZeros(ParcelOf(t, th))

\* C5 as stated: two well-formed identifiers that differ only in the blanks
\* between the parts or in the leading zeros of the parcel number are
\* formatted to the same canonical id.
C5_PaddingInsensitive ==
    (pc = "formattedBoth" /\ SameParcel(raw, other)) =>
        (fmt.ok /\ fmtOther.ok /\ fmt.value = fmtOther.value)


(***************************************************************************)
(* Specification SpecCsv: process_csv over the rows of the input CSV, the  *)
(* export of the grouped CSV, and read_csv of the exported file.           *)
(***************************************************************************)

\* index of the first ', ' of s at or after i (0: none)
FindSep(s, i) ==
    LET hits == {k \in i..(Len(s) - 1) : s[k] = "," /\ s[k + 1] = " "}
    IN  IF hits = {} THEN 0 ELSE CHOOSE k \in hits : \A m \in hits : k <= m

RECURSIVE SplitFrom(_, _)
SplitFrom(s, i) ==
    LET k == FindSep(s, i)
    IN  IF k = 0 THEN <<Slice(s, i, Len(s))>>
        ELSE <<Slice(s, i, k - 1)>> \o SplitFrom(s, k + 2)

\* str.split(', ')
Split(s) == SplitFrom(s, 1)

\* ', '.join(owners)
RECURSIVE Join(_)
Join(owners) ==
    IF owners = <<>> THEN <<>>
    ELSE IF Len(owners) = 1 THEN owners[1]
    ELSE owners[1] \o <<",", " ">> \o Join(Tail(owners))

\* a dict in insertion order: a sequence of [key, owners] with distinct keys
Keys(d) == {d[i].key : i \in 1..Len(d)}
Lookup(d, k) == d[CHOOSE i \in 1..Len(d) : d[i].key = k].owners

\* an update that replaces the list instead of extending it
DictExtend_overwrite(d, k, owners) ==
    IF k \in Keys(d)
    THEN [i \in 1..Len(d) |-> IF d[i].key = k THEN [key |-> k, owners |-> owners]
                                              ELSE d[i]]
    ELSE Append(d, [key |-> k, owners |-> owners])

\* an update that skips the names the list already holds
RECURSIVE AppendNew(_, _)
AppendNew(list, owners) ==
    IF owners = <<>> THEN list
    ELSE AppendNew(IF \E i \in 1..Len(list) : list[i] = owners[1]
                   THEN list ELSE Append(list, owners[1]),
                   Tail(owners))

DictExtend_dedup(d, k, owners) ==
    IF k \in Keys(d)
    THEN [i \in 1..Len(d) |->
             IF d[i].key = k THEN [key |-> k, owners |-> AppendNew(d[i].owners, owners)]
                             ELSE d[i]]
    ELSE Append(d, [key |-> k, owners |-> AppendNew(<<>>, owners)])

\* owners_by_parcel[formatted_id].extend(owners) on a defaultdict(list)
DictExtend(d, k, owners) ==
    IF k \in Keys(d)
    THEN [i \in 1..Len(d) |->
             IF d[i].key = k THEN [key |-> k, owners |-> d[i].owners \o owners]
                             ELSE d[i]]
    ELSE Append(d, [key |-> k, owners |-> owners])

\* owners_by_parcel[parcel_id] = owners.split(', ') on a plain dict
DictSet(d, k, owners) ==
    IF k \in Keys(d)
    THEN [i \in 1..Len(d) |-> IF d[i].key = k THEN [key |-> k, owners |-> owners]
                                              ELSE d[i]]
    ELSE Append(d, [key |-> k, owners |-> owners])

(***************************************************************************)
(* csv.writer (excel dialect, QUOTE_MINIMAL): a field is quoted when it    *)
(* holds the delimiter, the quote character or a line-terminator           *)
(* character; quotes inside a quoted field are doubled; a row ends \r\n.   *)
(***************************************************************************)
NeedsQuote(field, sep) ==
    \E k \in 1..Len(field) : field[k] \in {sep, "\"", "\r", "\n"}

RECURSIVE DoubleQuotes(_)
DoubleQuotes(field) ==
    IF field = <<>> THEN <<>>
    ELSE (IF Head(field) = "\"" THEN <<"\"", "\"">> ELSE <<Head(field)>>)
            \o DoubleQuotes(Tail(field))

CsvField(field, sep) ==
    IF NeedsQuote(field, sep)
    THEN <<"\"">> \o DoubleQuotes(field) \o <<"\"">>
    ELSE field

\* writer.writerow([a, b])
CsvWriteRow(a, b, sep) ==
    CsvField(a, sep) \o <<sep>> \o CsvField(b, sep) \o <<"\r", "\n">>

RECURSIVE CsvWriteRows(_, _)
CsvWriteRows(d, sep) ==
    IF d = <<>> THEN <<>>
    ELSE CsvWriteRow(d[1].key, Join(d[1].owners), sep) \o CsvWriteRows(Tail(d), sep)

\* the text export_to_csv writes: the header row, then a row per parcel
ExportText(d, sep) ==
    CsvWriteRow(<<"Parcel ID">>, <<"Owners">>, sep) \o CsvWriteRows(d, sep)

\* open(path, 'r') without newline='': '\r\n' and '\r' are read as '\n'
RECURSIVE UniversalNewlines(_)
UniversalNewlines(t) ==
    IF t = <<>> THEN <<>>
    ELSE IF Head(t) = "\r"
         THEN <<"\n">> \o UniversalNewlines(
                  IF Len(t) >= 2 /\ t[2] = "\n" THEN Slice(t, 3, Len(t)) ELSE Tail(t))
         ELSE <<Head(t)>> \o UniversalNewlines(Tail(t))

(***************************************************************************)
(* csv.reader (excel dialect, not strict): the parser's states are         *)
(* "record" (start of a record), "field" (start of a field), "in" (in an   *)
(* unquoted field), "quoted" (in a quoted field), "quote" (a quote met in  *)
(* a quoted field).  The result is the sequence of rows (sequences of      *)
(* fields).                                                                *)
(***************************************************************************)
RECURSIVE CsvParse(_, _, _, _, _, _, _)
CsvParse(t, i, st, field, row, out, sep) ==
    IF i > Len(t)
    THEN IF st = "record" THEN out ELSE Append(out, Append(row, field))
    ELSE LET c == t[i]
             nl == c \in {"\n", "\r"}
         IN  CASE st = "record" /\ nl ->
                    \* an empty line is an empty row; '\n' after '\r' is eaten
                    IF c = "\n" /\ i > 1 /\ t[i - 1] = "\r"
                    THEN CsvParse(t, i + 1, "record", <<>>, <<>>, out, sep)
                    ELSE CsvParse(t, i + 1, "record", <<>>, <<>>,
                                  Append(out, <<>>), sep)
               [] st \in {"record", "field"} /\ ~nl /\ c = "\"" ->
                    CsvParse(t, i + 1, "quoted", <<>>, row, out, sep)
               [] st \in {"record", "field"} /\ ~nl /\ c = sep /\ c # "\"" ->
                    CsvParse(t, i + 1, "field", <<>>, Append(row, <<>>), out, sep)
               [] st \in {"record", "field"} /\ ~nl /\ c # sep /\ c # "\"" ->
                    CsvParse(t, i + 1, "in", <<c>>, row, out, sep)
               [] st \in {"field", "in", "quote"} /\ nl ->
                    CsvParse(t, i + 1, "record", <<>>, <<>>,
                             Append(out, Append(row, field)), sep)
               [] st \in {"in", "quote"} /\ ~nl /\ c = sep ->
                    CsvParse(t, i + 1, "field", <<>>, Append(row, field), out, sep)
               [] st = "in" /\ ~nl /\ c # sep ->
                    CsvParse(t, i + 1, "in", Append(field, c), row, out, sep)
               [] st = "quoted" /\ c = "\"" ->
                    CsvParse(t, i + 1, "quote", field, row, out, sep)
               [] st = "quoted" /\ c # "\"" ->
                    CsvParse(t, i + 1, "quoted", Append(field, c), row, out, sep)
               [] st = "quote" /\ ~nl /\ c # sep /\ c = "\"" ->
                    CsvParse(t, i + 1, "quoted", Append(field, c), row, out, sep)
               [] st = "quote" /\ ~nl /\ c # sep /\ c # "\"" ->
                    CsvParse(t, i + 1, "in", Append(field, c), row, out, sep)

\* list(csv.reader(file, delimiter=sep)) on a file opened in text mode
CsvReadRows(text, sep) ==
    CsvParse(UniversalNewlines(text), 1, "record", <<>>, <<>>, <<>>, sep)

\* the loop of read_csv over the rows after the header
RECURSIVE ReadRows(_, _)
ReadRows(rs, d) ==
    IF rs = <<>> THEN d
    ELSE ReadRows(Tail(rs), DictSet(d, rs[1][1], Split(rs[1][2])))


\* the identifier column of a row: two parcels, one of them written in two
\* ways, and a value the pattern rejects
RowIds ==
    {BuildRaw(<<"1", "2", "3", "4", "5">>, 0, <<"A">>, 0, 0, <<"7">>),
     BuildRaw(<<"1", "2", "3", "4", "5">>, 1, <<"B">>, 1, 0, <<"7">>),
     <<"1", "2", "3", "4", "5">>}
\* the characters of the owner-name column
OwnerChars == {"a", ",", " ", "\r"}
Separators == {",", ";"}

CsvRows == [id : RowIds, owners : SeqsUpTo(OwnerChars, MaxOwnerLen)]

InitCsv ==
    /\ pc = "grouping"
    /\ IdleFmt
    /\ rows \in SeqsUpTo(CsvRows, MaxRows)
    /\ csv_separator \in Separators
    /\ idx = 0
    /\ owners_by_parcel = <<>>
    /\ csv_file = NoFile
    /\ csv_data = <<>>
    /\ IdleGeo
    /\ IdleRun

\* one iteration of  for row in reader  with a well-formed identifier
ProcessRow ==
    /\ pc = "grouping"
    /\ idx < Len(rows)
    /\ LET row == rows[idx + 1]
           formatted == format_id_csv_column(row.id)
       IN  /\ formatted.ok
           /\ owners_by_parcel' =
                 DictExtend(owners_by_parcel, formatted.value, Split(row.owners))
    /\ idx' = idx + 1
    /\ UNCHANGED <<pc, fmtVars, rows, csv_separator, csv_file, csv_data, geoVars,
                   first_run, runVars, response, error_log>>

\* an iteration that reports a rejected identifier and goes on to the next row
ProcessRowInvalid_skip ==
    /\ pc = "grouping"
    /\ idx < Len(rows)
    /\ LET formatted == format_id_csv_column(rows[idx + 1].id)
       IN  /\ formatted.raised
           /\ error_log' = LogError(error_log, "Failed to process the CSV file: ",
                                    formatted.error)
    /\ idx' = idx + 1
    /\ UNCHANGED <<pc, fmtVars, rows, csv_separator, owners_by_parcel, csv_file,
                   csv_data, geoVars, first_run, runVars, response>>

\* one iteration with an identifier format_id_csv_column rejects: process_csv
\* raises ValueError and export_to_csv is not reached
ProcessRowInvalid ==
    /\ pc = "grouping"
    /\ idx < Len(rows)
    /\ LET formatted == format_id_csv_column(rows[idx + 1].id)
       IN  /\ formatted.raised
           /\ error_log' = LogError(error_log, "Failed to process the CSV file: ",
                                    formatted.error)
    /\ pc' = "aborted"
    /\ UNCHANGED <<fmtVars, csvVars, csv_data, geoVars, first_run, runVars, response>>

\* export_to_csv at the end of process_csv; an exception of the write is
\* logged and not raised again
\* a process_csv that returns without calling export_to_csv
ExportToCsv_skip ==
    /\ pc = "grouping"
    /\ idx = Len(rows)
    /\ pc' = "exported"
    /\ UNCHANGED <<fmtVars, csvVars, csv_data, geoVars, first_run, runVars, response,
                   error_log>>

ExportToCsv ==
    /\ pc = "grouping"
    /\ idx = Len(rows)
    /\ \E writable \in BOOLEAN :
          IF writable
          THEN /\ csv_file' = [exists |-> TRUE,
                               text |-> ExportText(owners_by_parcel, csv_separator)]
               /\ UNCHANGED error_log
          ELSE /\ error_log' = LogError(error_log, "Error exporting data to CSV: ",
                                        OSError)
               /\ UNCHANGED csv_file
    /\ pc' = "exported"
    /\ UNCHANGED <<fmtVars, rows, csv_separator, idx, owners_by_parcel, csv_data,
                   geoVars, first_run, runVars, response>>

\* read_csv returns a dict
TableOk(table) ==
    /\ table # <<>>
    /\ \A i \in 2..Len(table) : Len(table[i]) = 2

ReadCsv ==
    /\ pc = "exported"
    /\ csv_file.exists
    /\ LET table == CsvReadRows(csv_file.text, csv_separator)
       IN  /\ TableOk(table)
           /\ csv_data' = ReadRows(Tail(table), <<>>)
    /\ pc' = "read"
    /\ UNCHANGED <<fmtVars, csvVars, geoVars, first_run, runVars, response, error_log>>

\* read_csv raises: no file, no header row (StopIteration), or a row that
\* does not unpack into (parcel_id, owners)
ReadCsvFails ==
    /\ pc = "exported"
    /\ \/ ~csv_file.exists
       \/ ~TableOk(CsvReadRows(csv_file.text, csv_separator))
    /\ error_log' = LogError(error_log, "Failed to read the CSV file: ",
                             IF csv_file.exists THEN <<"ValueError">> ELSE OSError)
    /\ pc' = "readFailed"
    /\ UNCHANGED <<fmtVars, csvVars, csv_data, geoVars, first_run, runVars, response>>

NextCsv ==
    \/ ProcessRow
    \/ ProcessRowInvalid
    \/ ExportToCsv
    \/ ReadCsv
    \/ ReadCsvFails

SpecCsv == InitCsv /\ [][NextCsv]_vars


\* process_csv's loop over all the rows, as a function of the rows
RECURSIVE GroupRows(_, _)
GroupRows(rs, d) ==
    IF rs = <<>> THEN d
    ELSE GroupRows(Tail(rs),
                   DictExtend(d, format_id_csv_column(rs[1].id).value,
                              Split(rs[1].owners)))

\* the owners of the rows of rs whose identifier normalises to k, in row order
RECURSIVE OwnersInRowOrder(_, _)
OwnersInRowOrder(rs, k) ==
    IF rs = <<>> THEN <<>>
    ELSE (IF format_id_csv_column(rs[1].id).value = k THEN Split(rs[1].owners)
          ELSE <<>>) \o OwnersInRowOrder(Tail(rs), k)

NormalisedIds(rs) == {format_id_csv_column(rs[i].id).value : i \in 1..Len(rs)}

GroupingDone == pc \in {"exported", "read", "readFailed"}

\* C6: once every row is grouped, the keys are exactly the normalised ids of
\* the rows, and the list of a key is the concatenation, in row order, of the
\* owner column split on ', ' of the rows with that id, repeated names kept.
C6_Grouping ==
    GroupingDone =>
        /\ Keys(owners_by_parcel) = NormalisedIds(rows)
        /\ Len(owners_by_parcel) = Cardinality(NormalisedIds(rows))
        /\ \A k \in Keys(owners_by_parcel) :
              Lookup(owners_by_parcel, k) = OwnersInRowOrder(rows, k)

\* two rows of the same parcel were grouped, one of them with two owners,
\* and an owner name is repeated in the list
C6_Witness ==
    /\ pc = "exported"
    /\ Len(rows) = 2
    /\ Len(owners_by_parcel) = 1
    /\ Len(owners_by_parcel[1].owners) = 3
    /\ owners_by_parcel[1].owners[1] = owners_by_parcel[1].owners[3]
    /\ owners_by_parcel[1].owners[1] # owners_by_parcel[1].owners[2]

Occurrences(list, x) == Cardinality({i \in 1..Len(list) : list[i] = x})
SameMultiset(l1, l2) ==
    /\ Len(l1) = Len(l2)
    /\ \A i \in 1..Len(l1) : Occurrences(l1, l1[i]) = Occurrences(l2, l1[i])

\* the orders in which the rows rs can be fed
Reorderings(rs) ==
    {[i \in 1..Len(rs) |-> rs[p[i]]] :
        p \in {q \in [1..Len(rs) -> 1..Len(rs)] :
                 \A i, j \in 1..Len(rs) : i # j => q[i] # q[j]}}

\* C7: fed in any other order, the same rows give the same keys and, for
\* each key, the same multiset of owners, listed in the order of the rows fed.
C7_RowOrder ==
    GroupingDone =>
        \A rs \in Reorderings(rows) :
            LET d == GroupRows(rs, <<>>)
            IN  /\ Keys(d) = Keys(owners_by_parcel)
                /\ \A k \in Keys(d) :
                      /\ SameMultiset(Lookup(d, k), Lookup(owners_by_parcel, k))
                      /\ Lookup(d, k) = OwnersInRowOrder(rs, k)

\* two rows of one parcel with different owners were grouped: the other
\* order of the rows gives another list
C7_Witness ==
    /\ pc = "exported"
    /\ Len(rows) = 2
    /\ Len(owners_by_parcel) = 1
    /\ \E rs \in Reorderings(rows) :
          GroupRows(rs, <<>>)[1].owners # owners_by_parcel[1].owners

\* C8 as stated: the grouped mapping, exported and read back with the same
\* separator, comes back with the same keys and the same owner lists.
C8_RoundTrip ==
    (pc \in {"read", "readFailed"} /\ csv_file.exists) =>
        /\ pc = "read"
        /\ Keys(csv_data) = Keys(owners_by_parcel)
        /\ \A k \in Keys(csv_data) :
              Lookup(csv_data, k) = Lookup(owners_by_parcel, k)


(***************************************************************************)
(* Specification SpecGeo: process_geojson.  The properties of a feature    *)
(* are a function from property names to values; the aggregate property    *)
(* name is a name other than 'id' and other than the individual names.     *)
(***************************************************************************)
IdKey == <<"id">>
\* feature['properties'].get('id', None) of a feature without id
NoneId == <<"None">>

Get(props, k) == IF k \in DOMAIN props THEN props[k] ELSE NoneId

\* an assignment that drops the other properties
SetProp_only(props, k, v) == [x \in {k} |-> v]

\* props[k] = v
SetProp(props, k, v) ==
    [x \in (DOMAIN props) \cup {k} |-> IF x = k THEN v ELSE props[x]]

\* a numbering of the individual properties that starts at 0
IndividualKey_zero(base, i) == base \o <<" ">> \o <<ToString(i - 1)>>

\* f'{individual_prop_base_name} {i}'
IndividualKey(base, i) == base \o <<" ">> \o <<ToString(i)>>

\* for i, owner in enumerate(owners, start=1): props[f'{base} {i}'] = owner
RECURSIVE SetIndividuals(_, _, _, _)
SetIndividuals(props, base, owners, i) ==
    IF i > Len(owners) THEN props
    ELSE SetIndividuals(SetProp(props, IndividualKey(base, i), owners[i]),
                        base, owners, i + 1)

\* a merge that keeps an aggregate property the feature already has
MergeProps_keep(props, owners, prop, base) ==
    LET aggregated == IF prop \in DOMAIN props THEN props
                      ELSE SetProp(props, prop, Join(owners))
    IN  IF base # <<>> THEN SetIndividuals(aggregated, base, owners, 1)
        ELSE aggregated

\* a merge that adds the owners to the aggregate value the feature has
MergeProps_accumulate(props, owners, prop, base) ==
    LET aggregated == IF prop \in DOMAIN props
                      THEN SetProp(props, prop,
                                   props[prop] \o <<",", " ">> \o Join(owners))
                      ELSE SetProp(props, prop, Join(owners))
    IN  IF base # <<>> THEN SetIndividuals(aggregated, base, owners, 1)
        ELSE aggregated

\* the body of the loop for a feature whose id is a key of the mapping
MergeProps(props, owners, prop, base) ==
    LET aggregated == SetProp(props, prop, Join(owners))
    IN  IF base # <<>> THEN SetIndividuals(aggregated, base, owners, 1)
        ELSE aggregated

\* a report that lists every feature visited
ReportUnmatched_all(report, parcel_id, d) == Append(report, parcel_id)

\* else: json_inconsistencies.append(parcel_id)
ReportUnmatched(report, parcel_id, d) ==
    IF parcel_id \in Keys(d) THEN report ELSE Append(report, parcel_id)

\* [feature['properties'].get('id') for feature in geojson_data['features']]
FeatureIds(features) == {Get(features[i], IdKey) : i \in 1..Len(features)}

\* a reverse check that reports every key
KeysWithoutFeature_all(d, features) == [i \in 1..Len(d) |-> d[i].key]

\* a reverse check in the direction of the scan of the features
KeysWithoutFeature_swapped(d, features) ==
    SelectSeq([i \in 1..Len(features) |-> Get(features[i], IdKey)],
              LAMBDA x : x \notin Keys(d))

\* the loop over owners_by_parcel that collects the keys no feature has
RECURSIVE KeysWithoutFeature(_, _)
KeysWithoutFeature(d, features) ==
    IF d = <<>> THEN <<>>
    ELSE (IF d[1].key \notin FeatureIds(features) THEN <<d[1].key>> ELSE <<>>)
            \o KeysWithoutFeature(Tail(d), features)

\* the rows export_inconsistencies writes; csv.writer writes None as ''
RECURSIVE InconsistencyRows(_)
InconsistencyRows(entries) ==
    IF entries = <<>> THEN <<>>
    ELSE CsvWriteRow(IF entries[1] = NoneId THEN <<>> ELSE entries[1],
                     <<"No matching owner data">>, ",")
            \o InconsistencyRows(Tail(entries))

\* an export without the header row
InconsistencyText_noheader(entries) == InconsistencyRows(entries)

InconsistencyText(entries) ==
    CsvWriteRow(<<"Parcel ID">>, <<"Reason">>, ",") \o InconsistencyRows(entries)

\* str.lower() on ASCII text
UpperLetters == <<"A", "B", "C", "D", "E", "F", "G", "H", "I", "J", "K", "L", "M",
                  "N", "O", "P", "Q", "R", "S", "T", "U", "V", "W", "X", "Y", "Z">>
LowerLetters == <<"a", "b", "c", "d", "e", "f", "g", "h", "i", "j", "k", "l", "m",
                  "n", "o", "p", "q", "r", "s", "t", "u", "v", "w", "x", "y", "z">>
LowerChar(c) ==
    IF c \in Upper
    THEN LowerLetters[CHOOSE i \in 1..Len(UpperLetters) : UpperLetters[i] = c]
    ELSE c

\* response.lower()
Lower(text) == [i \in 1..Len(text) |-> LowerChar(text[i])]

\* a confirmation that never asks
confirm_overwrite_always(exists, answer) == TRUE

\* confirm_overwrite(file_path) when the operator types answer at the prompt
confirm_overwrite(exists, answer) ==
    IF exists THEN Lower(answer) \in {<<"y", "e", "s">>, <<"y">>} ELSE TRUE

\* what the operator may type at the prompt
Responses ==
    {<<"y">>, <<"Y">>, <<"y", "e", "s">>, <<"Y", "E", "S">>, <<"Y", "e", "s">>,
     <<"n">>, <<"N", "O">>, <<>>, <<"y", "e">>, <<" ", "y">>, <<"o", "u", "i">>}

\* the output GeoJSON an earlier run left behind
OldOutput == [exists |-> TRUE, features |-> <<[x \in {<<"old">>} |-> <<"v">>]>>]

\* overwrite_mode as the caller passes it: main leaves the default 'ask',
\* submit passes 'gui'
OverwriteModes ==
    CASE flow = "cli" -> {"ask"}
      [] flow = "gui" -> {"gui"}
      [] OTHER -> {"ask", "gui"}

\* the ids of the two parcels of RowIds
ParcelIds ==
    {format_id_csv_column(r).value : r \in {x \in RowIds : format_id_csv_column(x).ok}}
OwnerNames == {<<"a">>, <<"b">>}
OwnerLists == UNION {[1..n -> OwnerNames] : n \in 1..MaxOwners}
BaseNames == {<<>>, <<"B">>}

\* mappings as read_csv returns them: distinct keys, lists with an owner
GeoDicts ==
    {d \in SeqsUpTo([key : ParcelIds, owners : OwnerLists], MaxParcels) :
        \A i, j \in 1..Len(d) : i # j => d[i].key # d[j].key}

\* a feature of the input: with or without id, with a property of its own,
\* and either fresh or carrying the owners an earlier run merged into it
FreshProps(id) ==
    IF id = NoneId THEN [x \in {<<"name">>} |-> <<"v">>]
    ELSE [x \in {IdKey, <<"name">>} |-> IF x = IdKey THEN id ELSE <<"v">>]

FreshFeatures == {FreshProps(id) : id \in ParcelIds \cup {NoneId}}

InputFeatures ==
    FreshFeatures
        \cup {MergeProps(FreshProps(id), prior, <<"P">>, <<"B">>) :
                 id \in ParcelIds, prior \in OwnerLists}

GeoStart ==
    /\ pc = "geo_start"
    /\ IdleFmt
    /\ IdleCsv
    /\ prop_name = <<"P">>
    /\ individual_prop_base_name \in BaseNames
    /\ geojson_data = <<>>
    /\ fidx = 0
    /\ processed_count = 0
    /\ json_inconsistencies = <<>>
    /\ csv_inconsistencies = <<>>
    /\ geo_result = "none"
    /\ IdleRun

\* an inconsistency file left by an earlier run, about another parcel
StaleReport == [exists |-> TRUE, text |-> InconsistencyText(<<<<"stale">>>>)]

\* the merge of any mapping into any input, up to the reverse check
InitGeo ==
    /\ GeoStart
    /\ csv_data \in GeoDicts
    /\ geo_input \in SeqsUpTo(InputFeatures, MaxFeatures)
    /\ inc_json_file = NoFile
    /\ inc_csv_file = NoFile
    /\ out_geojson = NoGeoFile

\* the whole of process_geojson on fresh features, the output file and the
\* inconsistency files being there or not
InitGeoRun ==
    /\ GeoStart
    /\ csv_data \in {d \in GeoDicts : \A i \in 1..Len(d) : Len(d[i].owners) = 1}
    /\ geo_input \in SeqsUpTo(FreshFeatures, MaxFeatures)
    /\ inc_json_file \in {NoFile, StaleReport}
    /\ inc_csv_file \in {NoFile, StaleReport}
    /\ out_geojson \in {NoGeoFile, OldOutput}

\* geojson_data = read_geojson(input_geojson_path); an error is raised again
ReadGeojson ==
    /\ pc = "geo_start"
    /\ \E readable \in BOOLEAN :
          IF readable
          THEN /\ geojson_data' = geo_input
               /\ pc' = "merging"
               /\ UNCHANGED <<geo_result, error_log>>
          ELSE /\ geo_result' = "raised"
               /\ error_log' = LogError(error_log, "Error reading the GeoJSON file: ",
                                        OSError)
               /\ pc' = "geo_failed"
               /\ UNCHANGED geojson_data
    /\ UNCHANGED <<fmtVars, csvVars, csv_data, geo_input, prop_name,
                   individual_prop_base_name, fidx, processed_count,
                   json_inconsistencies, csv_inconsistencies, inc_json_file,
                   inc_csv_file, out_geojson, first_run, runVars, response>>

\* one iteration of  for feature in geojson_data['features']
MergeFeature ==
    /\ pc = "merging"
    /\ fidx < Len(geojson_data)
    /\ LET props == geojson_data[fidx + 1]
           parcel_id == Get(props, IdKey)
       IN  IF parcel_id \in Keys(csv_data)
           THEN /\ geojson_data' =
                      [geojson_data EXCEPT ![fidx + 1] =
                          MergeProps(props, Lookup(csv_data, parcel_id), prop_name,
                                     individual_prop_base_name)]
                /\ processed_count' = processed_count + 1
                /\ json_inconsistencies' =
                      ReportUnmatched(json_inconsistencies, parcel_id, csv_data)
           ELSE /\ json_inconsistencies' =
                      ReportUnmatched(json_inconsistencies, parcel_id, csv_data)
                /\ UNCHANGED <<geojson_data, processed_count>>
    /\ fidx' = fidx + 1
    /\ UNCHANGED <<pc, fmtVars, csvVars, csv_data, geo_input, prop_name,
                   individual_prop_base_name, csv_inconsistencies, inc_json_file,
                   inc_csv_file, out_geojson, geo_result, first_run, runVars, response, error_log>>

\* for parcel_id in owners_by_parcel: the keys no feature has
ReverseCheck ==
    /\ pc = "merging"
    /\ fidx = Len(geojson_data)
    /\ csv_inconsistencies' = KeysWithoutFeature(csv_data, geojson_data)
    /\ pc' = "checked"
    /\ UNCHANGED <<fmtVars, csvVars, csv_data, geo_input, prop_name,
                   individual_prop_base_name, geojson_data, fidx, processed_count,
                   json_inconsistencies, inc_json_file, inc_csv_file, out_geojson,
                   geo_result, first_run, runVars, response, error_log>>

\* the two calls of export_inconsistencies; an exception of a write is
\* logged and not raised again
ExportInconsistencies ==
    /\ pc = "checked"
    /\ \E json_writable, csv_writable \in BOOLEAN :
          LET json_fails == json_inconsistencies # <<>> /\ ~json_writable
              csv_fails  == csv_inconsistencies # <<>> /\ ~csv_writable
              after_json == IF json_fails
                            THEN LogError(error_log, ExportInconsistenciesError, OSError)
                            ELSE error_log
          IN  /\ inc_json_file' =
                    IF json_inconsistencies # <<>> /\ json_writable
                    THEN [exists |-> TRUE,
                          text |-> InconsistencyText(json_inconsistencies)]
                    ELSE inc_json_file
              /\ inc_csv_file' =
                    IF csv_inconsistencies # <<>> /\ csv_writable
                    THEN [exists |-> TRUE,
                          text |-> InconsistencyText(csv_inconsistencies)]
                    ELSE inc_csv_file
              /\ error_log' =
                    IF csv_fails
                    THEN LogError(after_json, ExportInconsistenciesError, OSError)
                    ELSE after_json
    /\ pc' = "reported"
    /\ UNCHANGED <<fmtVars, csvVars, csv_data, geo_input, prop_name,
                   individual_prop_base_name, geojson_data, fidx, processed_count,
                   json_inconsistencies, csv_inconsistencies, out_geojson, geo_result,
                   first_run, runVars, response>>

\* the overwrite confirmation and write_geojson
WriteOutput ==
    /\ pc = "reported"
    /\ \E overwrite_mode \in OverwriteModes, answer \in Responses,
          writable \in BOOLEAN :
          LET prompted == overwrite_mode # "gui" /\ out_geojson.exists
          IN  /\ response' = IF prompted THEN answer ELSE response
              /\ IF overwrite_mode = "gui"
                       \/ confirm_overwrite(out_geojson.exists, answer)
                 THEN IF writable
                      THEN /\ out_geojson' = [exists |-> TRUE,
                                              features |-> geojson_data]
                           /\ geo_result' = "True"
                           /\ UNCHANGED error_log
                      ELSE /\ geo_result' = "raised"
                           /\ error_log' =
                                 LogError(error_log, "Error writing the GeoJSON file: ",
                                          OSError)
                           /\ UNCHANGED out_geojson
                 ELSE /\ geo_result' = "False"
                      /\ UNCHANGED <<out_geojson, error_log>>
    /\ pc' = "geo_done"
    /\ UNCHANGED <<fmtVars, csvVars, csv_data, geo_input, prop_name,
                   individual_prop_base_name, geojson_data, fidx, processed_count,
                   json_inconsistencies, csv_inconsistencies, inc_json_file,
                   inc_csv_file, first_run, runVars>>

NextGeo ==
    \/ ReadGeojson
    \/ MergeFeature
    \/ ReverseCheck

SpecGeo == InitGeo /\ [][NextGeo]_vars

\* process_geojson called again, with the same mapping and names, on the
\* collection the first call produced
RunAgain ==
    /\ pc = "checked"
    /\ ~first_run.ran
    /\ first_run' = [ran |-> TRUE, features |-> geojson_data,
                     json |-> json_inconsistencies, csv |-> csv_inconsistencies]
    /\ geo_input' = geojson_data
    /\ geojson_data' = <<>>
    /\ fidx' = 0
    /\ processed_count' = 0
    /\ json_inconsistencies' = <<>>
    /\ csv_inconsistencies' = <<>>
    /\ pc' = "geo_start"
    /\ UNCHANGED <<fmtVars, csvVars, csv_data, prop_name, individual_prop_base_name,
                   inc_json_file, inc_csv_file, out_geojson, geo_result, runVars,
                   response, error_log>>

NextTwice ==
    \/ ReadGeojson
    \/ MergeFeature
    \/ ReverseCheck
    \/ RunAgain

SpecTwice == InitGeo /\ [][NextTwice]_vars

NextGeoRun ==
    \/ ReadGeojson
    \/ MergeFeature
    \/ ReverseCheck
    \/ ExportInconsistencies
    \/ WriteOutput

SpecGeoRun == InitGeoRun /\ [][NextGeoRun]_vars

(***************************************************************************)
(* Specification SpecRun: one run of the pipeline from the command line    *)
(* (main) or from the form (submit), once the separator is accepted:       *)
(* process_csv, read_csv, process_geojson, and how the run ends.           *)
(***************************************************************************)
\* the rows of the input CSV of a run: one owner each
RunRows == {r \in CsvRows : r.owners = <<"a">>}

\* the grouped CSV an earlier run left in the output directory
StaleCsv(sep) ==
    [exists |-> TRUE,
     text |-> ExportText(
                 <<[key |-> format_id_csv_column(
                               BuildRaw(<<"1", "2", "3", "4", "5">>, 0, <<"A">>, 0, 0,
                                        <<"7">>)).value,
                    owners |-> << <<"b">> >>]>>, sep)]

\* the header line of an input CSV delimited by delim (file.readline())
HeaderLine(delim) ==
    <<"Bg Emplacement", delim, "Nom complet du proprietaire [BG]", "\n">>

InitRun ==
    /\ flow \in {"cli", "gui"}
    /\ pc = IF flow = "gui" THEN "gui_confirm" ELSE "grouping"
    /\ IdleFmt
    /\ rows \in SeqsUpTo(RunRows, MaxRows)
    /\ csv_separator \in Separators
    /\ separator = <<csv_separator>>
    /\ first_line = HeaderLine(csv_separator)
    /\ idx = 0
    /\ owners_by_parcel = <<>>
    /\ csv_file \in {NoFile, StaleCsv(csv_separator)}
    /\ csv_data = <<>>
    /\ geo_input \in SeqsUpTo(FreshFeatures, MaxFeatures)
    /\ prop_name = <<"P">>
    /\ individual_prop_base_name \in (IF flow = "gui" THEN {<<"B">>} ELSE BaseNames)
    /\ geojson_data = <<>>
    /\ fidx = 0
    /\ processed_count = 0
    /\ json_inconsistencies = <<>>
    /\ csv_inconsistencies = <<>>
    /\ inc_json_file = NoFile
    /\ inc_csv_file = NoFile
    /\ out_geojson \in {NoGeoFile, OldOutput}
    /\ geo_result = "none"
    /\ first_run = NoRun
    /\ overwrite = "none"
    /\ response = NoAnswer
    /\ exit_status = "none"
    /\ dialog = "none"
    /\ error_log = <<>>

\* submit: askyesno when the output GeoJSON exists, before any processing
GuiConfirmOverwrite ==
    /\ pc = "gui_confirm"
    /\ IF out_geojson.exists
       THEN \E answer \in {"yes", "no"} :
               /\ overwrite' = answer
               /\ IF answer = "yes"
                  THEN pc' = "grouping" /\ UNCHANGED dialog
                  ELSE pc' = "exit" /\ dialog' = "cancelled"
       ELSE pc' = "grouping" /\ UNCHANGED <<overwrite, dialog>>
    /\ UNCHANGED <<fmtVars, csvVars, csv_data, geoVars, first_run, flow, exit_status,
                   sepVars, response, error_log>>

\* process_csv raised: main exits with status 1, submit shows the error
CsvStepFails ==
    /\ pc = "aborted"
    /\ flow \in {"cli", "gui"}
    /\ IF flow = "cli"
       THEN exit_status' = "1" /\ UNCHANGED dialog
       ELSE dialog' = "error" /\ UNCHANGED exit_status
    /\ pc' = "exit"
    /\ UNCHANGED <<fmtVars, csvVars, csv_data, geoVars, first_run, flow, overwrite,
                   sepVars, response, error_log>>

\* the call of process_geojson with the dict read_csv returned
StartGeojson ==
    /\ pc = "read"
    /\ flow \in {"cli", "gui"}
    /\ pc' = "geo_start"
    /\ UNCHANGED <<fmtVars, csvVars, csv_data, geoVars, first_run, runVars, response,
                   error_log>>

\* read_csv or process_geojson raised: main logs and exits with status 1,
\* submit shows the error
GeoStepFails ==
    /\ \/ pc \in {"readFailed", "geo_failed"}
       \/ pc = "geo_done" /\ geo_result = "raised"
    /\ flow \in {"cli", "gui"}
    /\ IF flow = "cli"
       THEN /\ exit_status' = "1"
            /\ error_log' = LogError(error_log, "Error during GeoJSON processing: ",
                                     OSError)
            /\ UNCHANGED dialog
       ELSE /\ dialog' = "error"
            /\ UNCHANGED <<exit_status, error_log>>
    /\ pc' = "exit"
    /\ UNCHANGED <<fmtVars, csvVars, csv_data, geoVars, first_run, flow, overwrite,
                   sepVars, response>>

\* process_geojson returned (True, or False after a declined overwrite):
\* main falls off its end, submit shows the success message
RunEnds ==
    /\ pc = "geo_done"
    /\ geo_result \in {"True", "False"}
    /\ flow \in {"cli", "gui"}
    /\ IF flow = "cli"
       THEN exit_status' = "0" /\ UNCHANGED dialog
       ELSE dialog' = "success" /\ UNCHANGED exit_status
    /\ pc' = "exit"
    /\ UNCHANGED <<fmtVars, csvVars, csv_data, geoVars, first_run, flow, overwrite,
                   sepVars, response, error_log>>

NextRun ==
    \/ GuiConfirmOverwrite
    \/ ProcessRow
    \/ ProcessRowInvalid
    \/ ExportToCsv
    \/ CsvStepFails
    \/ ReadCsv
    \/ ReadCsvFails
    \/ StartGeojson
    \/ ReadGeojson
    \/ MergeFeature
    \/ ReverseCheck
    \/ ExportInconsistencies
    \/ WriteOutput
    \/ GeoStepFails
    \/ RunEnds

SpecRun == InitRun /\ [][NextRun]_vars

(***************************************************************************)
(* Specification SpecStart: a run from its start, the validation of the    *)
(* CSV separator included (main, lines 68-83; submit, lines 205-243).      *)
(***************************************************************************)
\* a validation that accepts any separator
SeparatorIn_any(sep, line) == TRUE

\* expected_separator in first_line  (a substring test; '' is in every line)
SeparatorIn(sep, line) ==
    \E i \in 0..(Len(line) - Len(sep)) : SubSeq(line, i + 1, i + Len(sep)) = sep

\* str.strip()
Strip(text) ==
    IF \A i \in 1..Len(text) : text[i] \in Whitespace THEN <<>>
    ELSE LET a == CHOOSE i \in 1..Len(text) :
                     /\ text[i] \notin Whitespace
                     /\ \A j \in 1..(i - 1) : text[j] \in Whitespace
             b == CHOOSE i \in 1..Len(text) :
                     /\ text[i] \notin Whitespace
                     /\ \A j \in (i + 1)..Len(text) : text[j] \in Whitespace
         IN  SubSeq(text, a, b)

\* what the operator may type at main's prompt
ConsoleEntries == {<<",">>, <<";">>, <<"|">>, <<>>}
\* what askstring may return: a text, or None when the dialog is cancelled
NoEntry == <<"None">>
DialogEntries == {<<",">>, <<";">>, <<" ", ";">>, <<"|">>, <<" ">>, <<>>, NoEntry}
\* how validate_csv_separator finds the identifier column
ColumnChecks == {"found", "wrong_case", "wrong_column"}

InitStart ==
    /\ flow \in {"cli", "gui"}
    /\ pc = "validating"
    /\ IdleFmt
    /\ rows \in SeqsUpTo(RunRows, MaxRows)
    /\ csv_separator = ","
    /\ separator \in {<<d>> : d \in Separators} \cup {<<>>}
    /\ first_line \in {HeaderLine(d) : d \in Separators}
    /\ idx = 0
    /\ owners_by_parcel = <<>>
    /\ csv_file = NoFile
    /\ csv_data = <<>>
    /\ geo_input \in SeqsUpTo(FreshFeatures, MaxFeatures)
    /\ prop_name = <<"P">>
    /\ individual_prop_base_name \in (IF flow = "gui" THEN {<<"B">>} ELSE BaseNames)
    /\ geojson_data = <<>>
    /\ fidx = 0
    /\ processed_count = 0
    /\ json_inconsistencies = <<>>
    /\ csv_inconsistencies = <<>>
    /\ inc_json_file = NoFile
    /\ inc_csv_file = NoFile
    /\ out_geojson \in {NoGeoFile, OldOutput}
    /\ geo_result = "none"
    /\ first_run = NoRun
    /\ overwrite = "none"
    /\ response = NoAnswer
    /\ exit_status = "none"
    /\ dialog = "none"
    /\ error_log = <<>>

\* main, lines 68-101: the separator is checked, asked for once when it is
\* not in the header line, checked again; then process_csv is called, and
\* csv.DictReader raises TypeError for a delimiter that is not one character
CliValidateSeparator ==
    /\ pc = "validating"
    /\ flow = "cli"
    /\ \E new_separator \in ConsoleEntries :
          LET valid    == SeparatorIn(separator, first_line)
              mismatch == LogError(error_log,
                             "CSV separator does not match the expected format.", <<>>)
              entered  == IF valid THEN separator ELSE new_separator
          IN  /\ separator' = entered
              /\ IF SeparatorIn(entered, first_line)
                 THEN /\ error_log' = IF valid THEN error_log ELSE mismatch
                      /\ UNCHANGED exit_status
                      /\ IF Len(entered) = 1
                         THEN csv_separator' = entered[1] /\ pc' = "grouping"
                         ELSE pc' = "aborted" /\ UNCHANGED csv_separator
                 ELSE /\ error_log' =
                            LogError(mismatch,
                               "CSV separator provided does not match the file format.",
                               <<>>)
                      /\ exit_status' = "1"
                      /\ pc' = "exit"
                      /\ UNCHANGED csv_separator
    /\ UNCHANGED <<fmtVars, rows, idx, owners_by_parcel, csv_file, csv_data, geoVars,
                   first_run, flow, overwrite, dialog, first_line, response>>

\* submit, lines 205-243: one turn of the while loop (csv.DictReader raises
\* for a delimiter that is not one character, which ends in an error box)
GuiValidateSeparator ==
    /\ pc = "validating"
    /\ flow = "gui"
    /\ IF SeparatorIn(separator, first_line)
       THEN \E column \in ColumnChecks :
               /\ IF column = "found" /\ Len(separator) = 1
                  THEN /\ pc' = "gui_confirm"
                       /\ csv_separator' = separator[1]
                       /\ UNCHANGED dialog
                  ELSE /\ pc' = "exit"
                       /\ dialog' = "error"
                       /\ UNCHANGED csv_separator
               /\ UNCHANGED separator
       ELSE \E new_separator \in DialogEntries :
               IF new_separator # NoEntry /\ Strip(new_separator) # <<>>
               THEN /\ separator' = Strip(new_separator)
                    /\ UNCHANGED <<pc, dialog, csv_separator>>
               ELSE /\ dialog' = "cancelled"
                    /\ pc' = "exit"
                    /\ UNCHANGED <<separator, csv_separator>>
    /\ UNCHANGED <<fmtVars, rows, idx, owners_by_parcel, csv_file, csv_data, geoVars,
                   first_run, flow, overwrite, exit_status, first_line, response,
                   error_log>>

NextStart ==
    \/ CliValidateSeparator
    \/ GuiValidateSeparator
    \/ NextRun

SpecStart == InitStart /\ [][NextStart]_vars


\* the loop over the features has ended
MergeDone ==
    /\ pc \in {"merging", "checked"}
    /\ fidx = Len(geojson_data)

Entries(report) == {report[i] : i \in 1..Len(report)}

\* C9: after the merge every feature whose id is a key of the mapping has the
\* aggregate property equal to the owners of that key joined with ', ',
\* whatever the property held before, and processed_count is the number of
\* these features.
C9_Merge ==
    MergeDone =>
        LET matched == {i \in 1..Len(geojson_data) :
                           Get(geojson_data[i], IdKey) \in Keys(csv_data)}
        IN  /\ \A i \in matched :
                  /\ prop_name \in DOMAIN geojson_data[i]
                  /\ geojson_data[i][prop_name] =
                        Join(Lookup(csv_data, Get(geojson_data[i], IdKey)))
            /\ processed_count = Cardinality(matched)

\* a feature that came with another aggregate value was merged with the two
\* owners of its parcel
C9_Witness ==
    /\ MergeDone
    /\ \E i \in 1..Len(geojson_data) :
          /\ Get(geo_input[i], IdKey) \in Keys(csv_data)
          /\ prop_name \in DOMAIN geo_input[i]
          /\ geo_input[i][prop_name] # geojson_data[i][prop_name]
          /\ Len(Lookup(csv_data, Get(geo_input[i], IdKey))) = 2
          /\ processed_count >= 1

\* C10: after the scan of the features an id is in the JSON-side report
\* exactly when a feature has it and it is no key of the mapping (a feature
\* without id counts under the id None that .get returns); no id of a
\* matched feature is reported.
C10_JsonSide ==
    MergeDone =>
        /\ \A x \in Entries(json_inconsistencies) \cup FeatureIds(geo_input)
                      \cup Keys(csv_data) :
              x \in Entries(json_inconsistencies) <=>
                 (x \in FeatureIds(geo_input) /\ x \notin Keys(csv_data))
        /\ \A i \in 1..Len(geo_input) :
              Get(geo_input[i], IdKey) \in Keys(csv_data) =>
                 Get(geo_input[i], IdKey) \notin Entries(json_inconsistencies)

\* a collection with a matched and an unmatched feature was scanned: only
\* the id of the unmatched one is reported
C10_Witness ==
    /\ MergeDone
    /\ Len(geo_input) = 2
    /\ Get(geo_input[1], IdKey) \in Keys(csv_data)
    /\ Get(geo_input[2], IdKey) \in ParcelIds \ Keys(csv_data)
    /\ json_inconsistencies = <<Get(geo_input[2], IdKey)>>

\* the reverse check has run
Checked == pc = "checked"

\* the ids of the features, in file order
IdsInOrder(features) == [i \in 1..Len(features) |-> Get(features[i], IdKey)]

\* the keys of a mapping, in insertion order
KeysInOrder(d) == [i \in 1..Len(d) |-> d[i].key]

\* C11: after process_geojson's two scans an id is in the CSV-side report
\* exactly when it is a key of the mapping and no feature of the input has it
\* as properties.id; and both reports are the ones obtained by building the
\* set of the input's ids (and the set of keys) once and testing membership:
\* the keys outside the id set, the feature ids outside the key set, in order.
C11_CsvSide ==
    Checked =>
        LET ids  == FeatureIds(geo_input)
            keys == Keys(csv_data)
        IN  /\ \A x \in Entries(csv_inconsistencies) \cup ids \cup keys :
                  x \in Entries(csv_inconsistencies) <=> (x \in keys /\ x \notin ids)
            /\ csv_inconsistencies =
                  SelectSeq(KeysInOrder(csv_data), LAMBDA k : k \notin ids)
            /\ json_inconsistencies =
                  SelectSeq(IdsInOrder(geo_input), LAMBDA x : x \notin keys)

\* a mapping with a key some feature has (merged) and a key no feature has:
\* only the second is reported on the CSV side
C11_Witness ==
    /\ Checked
    /\ Len(csv_data) = 2
    /\ csv_data[1].key \in FeatureIds(geo_input)
    /\ csv_data[2].key \notin FeatureIds(geo_input)
    /\ csv_inconsistencies = <<csv_data[2].key>>
    /\ processed_count >= 1

\* C12: the JSON-side and the CSV-side report have no id in common.
C12_Disjoint ==
    Checked =>
        Entries(json_inconsistencies) \cap Entries(csv_inconsistencies) = {}

\* both reports have an entry: a feature of one parcel, a key of the other
C12_Witness ==
    /\ Checked
    /\ json_inconsistencies # <<>>
    /\ csv_inconsistencies # <<>>
    /\ Entries(json_inconsistencies) \cap ParcelIds # {}

\* l holds no value twice
NoRepeat(l) == \A i, j \in 1..Len(l) : i # j => l[i] # l[j]

\* the first column of the data rows of an exported inconsistency table
TableIds(file) ==
    LET table == CsvReadRows(file.text, ",")
    IN  [i \in 1..(Len(table) - 1) |-> table[i + 1][1]]

\* C13 as stated: every entry of the JSON-side and of the CSV-side report is
\* a parcel id and occurs once, in the report and in the exported table, also
\* when features share an id or have no id.
C13_ReportsAreSets ==
    pc \in {"checked", "reported", "geo_done"} =>
        /\ \A x \in Entries(json_inconsistencies) \cup Entries(csv_inconsistencies) :
              x \in ParcelIds
        /\ NoRepeat(json_inconsistencies)
        /\ NoRepeat(csv_inconsistencies)
        /\ inc_json_file.exists => NoRepeat(TableIds(inc_json_file))
        /\ inc_csv_file.exists => NoRepeat(TableIds(inc_csv_file))

\* the decimal numeral of a small index
Numeral(i) ==
    CASE i = 1 -> "1" [] i = 2 -> "2" [] i = 3 -> "3" [] i = 4 -> "4"
      [] i = 5 -> "5" [] i = 6 -> "6" [] i = 7 -> "7" [] i = 8 -> "8"
      [] i = 9 -> "9"

\* the property name '<base name> i'
OwnerField(base, i) == base \o <<" ", Numeral(i)>>

\* C14: after the merge, with a base name configured, every feature whose id
\* is a key of the mapping has the property '<base name> i' equal to the i-th
\* owner of the key, for each i from 1 to the number of owners; with an empty
\* base name a matched feature gets the aggregate property and no other
\* property, and its other properties keep their values.
C14_Individuals ==
    MergeDone =>
        \A f \in 1..Len(geojson_data) :
            Get(geo_input[f], IdKey) \in Keys(csv_data) =>
                LET owners == Lookup(csv_data, Get(geo_input[f], IdKey))
                    props  == geojson_data[f]
                IN  IF individual_prop_base_name # <<>>
                    THEN \A i \in 1..Len(owners) :
                            /\ OwnerField(individual_prop_base_name, i) \in DOMAIN props
                            /\ props[OwnerField(individual_prop_base_name, i)] = owners[i]
                    ELSE /\ DOMAIN props = DOMAIN geo_input[f] \cup {prop_name}
                         /\ \A k \in DOMAIN geo_input[f] \ {prop_name} :
                               props[k] = geo_input[f][k]

\* a feature without individual properties was merged with the two different
\* owners of its parcel under the base name B: it has 'B 1' and 'B 2'
C14_Witness ==
    /\ MergeDone
    /\ individual_prop_base_name = <<"B">>
    /\ \E f \in 1..Len(geojson_data) :
          /\ Get(geo_input[f], IdKey) \in Keys(csv_data)
          /\ DOMAIN geo_input[f] = {IdKey, <<"name">>}
          /\ Lookup(csv_data, Get(geo_input[f], IdKey)) = << <<"a">>, <<"b">> >>
          /\ geojson_data[f][<<"B", " ", "1">>] = <<"a">>
          /\ geojson_data[f][<<"B", " ", "2">>] = <<"b">>

\* C15: when process_geojson's merge is applied, with the same mapping and
\* property names, to the collection a first merge produced, every feature
\* comes out with the properties the first merge gave it, and the two
\* inconsistency reports are those of the first merge.
C15_Idempotent ==
    (first_run.ran /\ Checked) =>
        /\ geojson_data = first_run.features
        /\ json_inconsistencies = first_run.json
        /\ csv_inconsistencies = first_run.csv

\* the second merge visited a feature the first merge had given two owners
\* under a base name, next to an unmatched feature and an unmatched key
C15_Witness ==
    /\ first_run.ran
    /\ Checked
    /\ individual_prop_base_name = <<"B">>
    /\ processed_count >= 1
    /\ json_inconsistencies # <<>>
    /\ csv_inconsistencies # <<>>
    /\ \E f \in 1..Len(geojson_data) :
          /\ Get(geojson_data[f], IdKey) \in Keys(csv_data)
          /\ Len(Lookup(csv_data, Get(geojson_data[f], IdKey))) = 2
          /\ <<"B", " ", "2">> \in DOMAIN geojson_data[f]

\* the index of the first row whose identifier is rejected (0: none)
FirstRejected(rs) ==
    IF \E i \in 1..Len(rs) : format_id_csv_column(rs[i].id).raised
    THEN CHOOSE i \in 1..Len(rs) :
            /\ format_id_csv_column(rs[i].id).raised
            /\ \A j \in 1..(i - 1) : ~format_id_csv_column(rs[j].id).raised
    ELSE 0

\* text occurs in msg
Contains(msg, text) ==
    \E i \in 0..(Len(msg) - Len(text)) : SubSeq(msg, i + 1, i + Len(text)) = text

\* the grouped CSV and the output GeoJSON are as the run found them
CsvUntouched == csv_file \in {NoFile, StaleCsv(csv_separator)}
GeojsonUntouched == out_geojson \in {NoGeoFile, OldOutput}

\* the run is over and was not cancelled at the form's overwrite dialog
Ended == pc = "exit" /\ dialog # "cancelled"

\* C16: in a run whose input CSV has a row with a rejected identifier, the
\* rows before the first such row are the only ones consumed, process_csv
\* stops there, export_to_csv, read_csv and process_geojson are never reached
\* (the grouped CSV and the geometry output stay as they were), an error
\* message holding the raw value of that row is logged, and the run ends in
\* failure (exit status 1, or the form's error box).
C16_AbortOnMalformed ==
    LET bad == FirstRejected(rows)
    IN  bad > 0 =>
            /\ idx < bad
            /\ pc \in {"gui_confirm", "grouping", "aborted", "exit"}
            /\ CsvUntouched
            /\ GeojsonUntouched
            /\ geojson_data = <<>>
            /\ geo_result = "none"
            /\ (pc = "aborted" \/ Ended) =>
                  /\ idx = bad - 1
                  /\ \E m \in 1..Len(error_log) :
                        Contains(error_log[m], rows[bad].id)
            /\ Ended => IF flow = "cli" THEN exit_status = "1" ELSE dialog = "error"

\* a run from the command line ended with status 1 at the second row, the
\* first row grouped and the grouped CSV not written
C16_Witness ==
    /\ pc = "exit"
    /\ flow = "cli"
    /\ Len(rows) = 2
    /\ FirstRejected(rows) = 2
    /\ idx = 1
    /\ Len(owners_by_parcel) = 1
    /\ ~csv_file.exists
    /\ exit_status = "1"

\* C17 as stated: in a run in which a step failed (an error was logged: a
\* rejected identifier, an unreadable file, a failed write of the grouped CSV
\* or of an inconsistency CSV), the output GeoJSON is not written.
C17_FailureAborts ==
    error_log # <<>> => (GeojsonUntouched /\ geo_result # "True")

\* an exception of the operating system was logged in this run
IoErrorLogged == \E m \in 1..Len(error_log) : Contains(error_log[m], OSError)

\* C18 as stated: a run in which reading or writing a file raised an I/O
\* error ends with exit status 1 (command line) or with the error box (form),
\* never as a success.
C18_IoErrorsFail ==
    (pc = "exit" /\ IoErrorLogged) =>
        IF flow = "cli" THEN exit_status = "1" ELSE dialog = "error"

\* 'y' and 'yes' in any mix of upper and lower case
YesAnswers ==
    {<<a>> : a \in {"y", "Y"}}
        \cup {<<a, b, c>> : a \in {"y", "Y"}, b \in {"e", "E"}, c \in {"s", "S"}}

\* this step is process_geojson's last one and it called write_geojson
WriteCalled ==
    /\ pc = "reported"
    /\ pc' = "geo_done"
    /\ geo_result' \in {"True", "raised"}

\* C19: every step of a run keeps the overwrite policy.  From the command
\* line, write_geojson is called on an existing output file exactly when the
\* answer typed at the prompt is 'y' or 'yes' in any case (and always when
\* the file does not exist).  From the form, process_geojson prompts nobody
\* and writes, and processing starts only if the file did not exist or the
\* yes/no dialog was answered yes.
C19_OverwritePolicy ==
    [][ /\ (flow = "cli" /\ pc = "reported" /\ pc' = "geo_done") =>
              (WriteCalled <=> (~out_geojson.exists \/ response' \in YesAnswers))
        /\ (flow = "gui" /\ pc = "reported" /\ pc' = "geo_done") =>
              (WriteCalled /\ response' = NoAnswer)
        /\ (flow = "gui" /\ pc = "gui_confirm" /\ pc' = "grouping") =>
              (~out_geojson.exists \/ overwrite' = "yes")
        /\ (flow = "gui" /\ WriteCalled) =>
              (~out_geojson.exists \/ overwrite = "yes")
      ]_vars

\* the operator typed YES at the prompt of a command-line run and the old
\* output file was replaced by the merged collection
C19_Witness ==
    /\ flow = "cli"
    /\ pc = "geo_done"
    /\ response = <<"Y", "E", "S">>
    /\ geo_result = "True"
    /\ out_geojson = [exists |-> TRUE, features |-> geojson_data]
    /\ geojson_data # <<>>

\* the operator declined to overwrite the output GeoJSON: 'n' at the prompt
\* of process_geojson, or no at the form's dialog
Declined ==
    \/ flow = "cli" /\ geo_result = "False"
    \/ flow = "gui" /\ overwrite = "no"

\* C20 as stated: a run in which the operator declined the overwrite ends
\* without a failure status and without an error box, leaves the output
\* GeoJSON as it was, and writes no other output file (grouped CSV,
\* inconsistency CSVs).
C20_CancelIsNoOp ==
    Declined =>
        /\ exit_status # "1"
        /\ dialog # "error"
        /\ out_geojson = OldOutput
        /\ CsvUntouched
        /\ inc_json_file = NoFile
        /\ inc_csv_file = NoFile

\* the separator of the run occurs in the header line of the input CSV
SeparatorMatches == Contains(first_line, separator)

\* nothing has been grouped, merged or written in this run
NothingProcessed ==
    /\ idx = 0
    /\ owners_by_parcel = <<>>
    /\ csv_file = NoFile
    /\ csv_data = <<>>
    /\ geojson_data = <<>>
    /\ fidx = 0
    /\ inc_json_file = NoFile
    /\ inc_csv_file = NoFile
    /\ GeojsonUntouched

\* C21: in a run from the command line or from the form, process_csv is
\* called (and any later stage reached) only with a separator that occurs in
\* the header line, the delimiter of the csv module being that separator; in
\* every state in which the configured or entered separator does not occur in
\* the header line, nothing has been grouped, merged or written.
C21_ValidatedFirst ==
    /\ pc \notin {"validating", "exit"} => SeparatorMatches
    /\ pc \notin {"validating", "exit", "aborted"} => separator = <<csv_separator>>
    /\ ~SeparatorMatches => NothingProcessed

\* a command-line run whose configured separator was not in the header line
\* went on, with the separator entered at the prompt, to group its rows
C21_Witness ==
    /\ flow = "cli"
    /\ Len(error_log) >= 1
    /\ error_log[1] = <<"CSV separator does not match the expected format.">>
    /\ SeparatorMatches
    /\ csv_separator = ";"
    /\ idx = 2
    /\ csv_file.exists

\* C22: the separator stage is left only with a separator that occurs in the
\* header line or, in the form, by the operator cancelling the input dialog:
\* as long as the separator entered is not in the header line the operator is
\* asked again.
C22_RepromptIsLoop ==
    pc # "validating" =>
        \/ SeparatorMatches
        \/ flow = "gui" /\ dialog = "cancelled"

\* the rows export_inconsistencies is to leave in a file: the header, then a
\* row per entry (None is written as an empty field)
RECURSIVE ReportRows(_)
ReportRows(entries) ==
    IF entries = <<>> THEN <<>>
    ELSE <<<<IF entries[1] = NoneId THEN <<>> ELSE entries[1],
             <<"No matching owner data">>>>>> \o ReportRows(Tail(entries))

\* one report and its file over the export step; failed says that the write
\* was refused by the file system
ReportExported(entries, before, after, failed) ==
    IF entries = <<>> \/ failed
    THEN after = before
    ELSE /\ after.exists
         /\ CsvParse(after.text, 1, "record", <<>>, <<>>, <<>>, ",") =
                <<<<<<"Parcel ID">>, <<"Reason">>>>>> \o ReportRows(entries)

GeoStages == {"geo_start", "merging", "checked", "reported", "geo_done", "geo_failed"}

\* the grouped CSV on disk is the one this run exported
ThisRunCsv ==
    csv_file = [exists |-> TRUE, text |-> ExportText(owners_by_parcel, csv_separator)]

\* export_to_csv logged that its write was refused
ExportRefused ==
    \E m \in 1..Len(error_log) : error_log[m][1] = "Error exporting data to CSV: "

WrittenKeys(owners) ==
    {prop_name} \cup
    (IF individual_prop_base_name = <<>> THEN {}
     ELSE {OwnerField(individual_prop_base_name, i) : i \in 1..Len(owners)})

\* the collection in memory against the collection read
FrameHolds ==
    /\ Len(geojson_data) = Len(geo_input)
    /\ \A f \in 1..Len(geo_input) :
          LET before == geo_input[f]
              after  == geojson_data[f]
              id     == Get(before, IdKey)
          IN  IF id \in Keys(csv_data)
              THEN LET written == WrittenKeys(Lookup(csv_data, id))
                   IN  /\ DOMAIN after \ written = DOMAIN before \ written
                       /\ \A k \in DOMAIN before \ written : after[k] = before[k]
              ELSE after = before

\* C25: no step of the merge changes OwnersByParcel, and once the collection
\* is read it has, at every point of the merge and of the reverse check, the
\* features of the input in the same number and order, where a feature whose
\* id is no key of OwnersByParcel has exactly its input properties and a
\* matched feature has, apart from the aggregate property and the properties
\* '<base name> i' for i in 1..n, the property names and values of the input.
C25_MergeFrame ==
    [][ /\ csv_data' = csv_data
        /\ geo_input' = geo_input
        /\ pc' \in {"merging", "checked"} => FrameHolds' ]_vars

\* a collection of a matched feature that got its owners and kept its name,
\* and an unmatched feature, after the merge
C25_Witness ==
    /\ MergeDone
    /\ Len(geojson_data) = 2
    /\ \E f, g \in 1..2 :
          /\ Get(geo_input[f], IdKey) \in Keys(csv_data)
          /\ geojson_data[f] # geo_input[f]
          /\ <<"name">> \in DOMAIN geo_input[f]
          /\ geojson_data[f][<<"name">>] = geo_input[f][<<"name">>]
          /\ Get(geo_input[g], IdKey) \notin Keys(csv_data)
          /\ geojson_data[g] = geo_input[g]

\* C26: after a merge with a base name configured, a feature whose id is a
\* key of the mapping with n owners has the property '<base name> i' exactly
\* for the indices i from 1 to n, whatever properties it came with.
C26_ExactIndividuals ==
    (MergeDone /\ individual_prop_base_name # <<>>) =>
        \A f \in 1..Len(geojson_data) :
            Get(geo_input[f], IdKey) \in Keys(csv_data) =>
                LET n == Len(Lookup(csv_data, Get(geo_input[f], IdKey)))
                IN  \A i \in 1..(MaxOwners + 1) :
                       OwnerField(individual_prop_base_name, i)
                           \in DOMAIN geojson_data[f] <=> i <= n

\* the two identifiers differ in the commune code, in the section letters or
\* in the numeric value of the parcel number
DifferentParcel(s, t) ==
    \A sh \in Shapes(s), th \in Shapes(t) :
        \/ CommuneOf(s) # CommuneOf(t)
        \/ SectionOf(s, sh) # SectionOf(t, th)
        \/ StripZeros(ParcelOf(s, sh)) # StripZeros(ParcelOf(t, th))

\* C27: two well-formed identifiers that differ in the commune code, in the
\* section letters, or in the numeric value of the parcel number are both
\* formatted, and to different canonical ids -- sections of three letters
\* and parcel numbers of five digits included.
C27_FaithfulKey ==
    (pc = "formattedBoth" /\ WellFormed(raw) /\ WellFormed(other)
        /\ DifferentParcel(raw, other)) =>
        (fmt.ok /\ fmtOther.ok /\ fmt.value # fmtOther.value)

\* two identifiers of one commune with the five-digit parcel number 12345,
\* one in section ABC and one in section AB, got different ids
C27_Witness ==
    /\ pc = "formattedBoth"
    /\ CommuneOf(raw) = CommuneOf(other)
    /\ \E sh \in Shapes(raw), th \in Shapes(other) :
          /\ SectionOf(raw, sh) = <<"A", "B", "C">>
          /\ SectionOf(other, th) = <<"A", "B">>
          /\ ParcelOf(raw, sh) = <<"1", "2", "3", "4", "5">>
          /\ ParcelOf(other, th) = <<"1", "2", "3", "4", "5">>
    /\ fmt.ok /\ fmtOther.ok
    /\ fmt.value # fmtOther.value

====
